---- MODULE Spec2Model ----
(***************************************************************************)
(* Model of handler.py: the Lambda action dispatcher (lambda_handler), the *)
(* handlers it routes to, and the pure line cleaner clean_extracted_text.  *)
(*                                                                         *)
(* Text is modelled as a sequence of one-character strings, so that split, *)
(* join, strip and startswith are computed as Python computes them.        *)
(* External services (requests, Textract, Comprehend, Polly, S3,           *)
(* Transcribe, Rekognition) are nondeterministic: each call either returns *)
(* a result drawn from a bounded set or raises.                            *)
(***************************************************************************)
EXTENDS Integers, Sequences, FiniteSets, TLC

\* ------------------------------------------------------------------ bounds

\* Largest number of blocks in one Textract response.
MaxBlocks == 2
\* Largest number of lines in a text handed to the cleaner on its own.
MaxLines == 2
\* Largest value of int(time.time()) the model lets the clock reach.
MaxClock == 1

\* len(line) > 4 in clean_extracted_text.
MinLineLen == 4

Invocations == {1, 2}

\* ------------------------------------------------------------ text helpers

NL == "\n"

\* The characters str.strip() removes that the model's texts can hold.
Whitespace == {" ", "\t", "\n", "\r", "\f"}

Http == <<"h", "t", "t", "p", ":", "/", "/">>
Https == <<"h", "t", "t", "p", "s", ":", "/", "/">>

\* str.startswith(prefix)
StartsWith(s, prefix) ==
    /\ Len(s) >= Len(prefix)
    /\ SubSeq(s, 1, Len(prefix)) = prefix

RECURSIVE LStrip(_)
LStrip(s) ==
    IF s # <<>> /\ Head(s) \in Whitespace THEN LStrip(Tail(s)) ELSE s

RECURSIVE RStrip(_)
RStrip(s) ==
    IF s # <<>> /\ s[Len(s)] \in Whitespace
    THEN RStrip(SubSeq(s, 1, Len(s) - 1))
    ELSE s

\* str.strip()
Strip(s) == RStrip(LStrip(s))

\* str.split(sep) for a one-character sep: "".split(sep) is [""].
RECURSIVE Split(_, _)
Split(s, sep) ==
    IF \A k \in 1..Len(s) : s[k] # sep
    THEN <<s>>
    ELSE LET k == CHOOSE n \in 1..Len(s) :
                      /\ s[n] = sep
                      /\ \A m \in 1..(n - 1) : s[m] # sep
         IN <<SubSeq(s, 1, k - 1)>> \o Split(SubSeq(s, k + 1, Len(s)), sep)

\* sep.join(parts)
RECURSIVE Join(_, _)
Join(parts, sep) ==
    IF parts = <<>> THEN <<>>
    ELSE IF Len(parts) = 1 THEN parts[1]
    ELSE parts[1] \o <<sep>> \o Join(Tail(parts), sep)

\* ------------------------------------------------------------ line cleaner

\* The test of one line in the loop of clean_extracted_text.
KeepLine(line) ==
    /\ ~(StartsWith(line, Http) \/ StartsWith(line, Https))
    /\ Len(line) > MinLineLen

\* The loop of clean_extracted_text: cleaned_lines from lines.
RECURSIVE CleanedLines(_)
CleanedLines(lines) ==
    IF lines = <<>> THEN <<>>
    ELSE IF KeepLine(Head(lines))
         THEN <<Strip(Head(lines))>> \o CleanedLines(Tail(lines))
         ELSE CleanedLines(Tail(lines))

clean_extracted_text(text) == Join(CleanedLines(Split(text, NL)), NL)

\* ---------------------------------------------------------- bounded inputs

L_Empty == <<>>
L_Hi == <<"H", "i">>
L_Hello == <<"H", "e", "l", "l", "o">>
L_HelloWorld == L_Hello \o <<" ", "w", "o", "r", "l", "d">>
L_PaddedHi == <<" ", " ", "H", "i", " ">>
L_TabHello == <<"\t">> \o L_Hello \o <<" ">>
L_Blank == <<" ", " ", " ", " ", " ">>
L_Url == Http \o <<"x">>
L_SecureUrl == Https \o <<"y">>
L_IndentedUrl == <<" ">> \o L_Url

\* Texts of the LINE and WORD blocks a Textract response is drawn from.
OcrTexts == {L_Hi, L_Hello, L_HelloWorld, L_Blank, L_Url, L_IndentedUrl}

\* Lines of the texts handed to the cleaner on its own.
CleanerLines ==
    OcrTexts \cup {L_Empty, L_PaddedHi, L_TabHello, L_SecureUrl}

SeqsUpTo(S, n) == UNION {[1..k -> S] : k \in 0..n}

CleanerTexts == {Join(ls, NL) : ls \in SeqsUpTo(CleanerLines, MaxLines)}

\* ------------------------------------------------------------ the requests

\* A key the JSON body does not hold; dict.get gives None for it.
Absent == "<absent>"

\* `not value` for the values a field takes here.
Falsy(v) == v \in {Absent, ""}

ActionNames ==
    {"textract", "comprehend", "textract-comprehend", "polly", "transcribe",
     "rekognition"}

\* base64.b64decode: the decoded bytes, or the binascii.Error it raises.
b64decode(s) ==
    CASE s = "" -> [ok |-> TRUE, bytes |-> ""]
      [] s = "aGVsbG8=" -> [ok |-> TRUE, bytes |-> "hello"]
      [] s = "c291bmQ=" -> [ok |-> TRUE, bytes |-> "sound"]
      [] OTHER -> [ok |-> FALSE, bytes |-> ""]

\* A string requests.get accepts as a URL (else it raises MissingSchema, a
\* RequestException, before anything is sent).
IsUrl(s) == s = "http://doc"

Request(wellformed, action, source_type, file_content, text, audio_base64, rekognition_type, image_data) ==
    [wellformed |-> wellformed, action |-> action,
     source_type |-> source_type, file_content |-> file_content,
     text |-> text, audio_base64 |-> audio_base64,
     rekognition_type |-> rekognition_type, image_data |-> image_data]

NoRequest ==
    Request(FALSE, Absent, Absent, Absent, Absent, Absent, Absent, Absent)

SourceTypes == {Absent, "", "url", "upload", "ftp"}
FileContents == {Absent, "", "aGVsbG8=", "abc", "http://doc"}
Texts == {Absent, "", "I love this product"}
Audios == {Absent, "", "c291bmQ="}
RekognitionTypes == {Absent, "", "label", "detect_faces", "bogus"}
ImageDatas == {Absent, "", "aGVsbG8=", "abc"}

TranscribeRequests ==
    {Request(TRUE, "transcribe", Absent, Absent, Absent, a, Absent, Absent) :
        a \in Audios}

\* The events lambda_handler is invoked with: a body that is not a JSON
\* object, or a JSON object with the fields of its action.
Requests ==
    {NoRequest}
    \cup {Request(TRUE, a, Absent, Absent, Absent, Absent, Absent, Absent) :
            a \in {Absent, "bogus"}}
    \cup {Request(TRUE, a, st, fc, Absent, Absent, Absent, Absent) :
            a \in {"textract", "textract-comprehend"},
            st \in SourceTypes, fc \in FileContents}
    \cup {Request(TRUE, a, Absent, Absent, t, Absent, Absent, Absent) :
            a \in {"comprehend", "polly"}, t \in Texts}
    \cup TranscribeRequests
    \cup {Request(TRUE, "rekognition", Absent, Absent, Absent, Absent, rt, im) :
            rt \in RekognitionTypes, im \in ImageDatas}

\* ----------------------------------------------------------- the responses

\* The JSON body of a response: an error message, the cleaned lines, a
\* sentiment, the combined result (lines and sentiment, or lines and the
\* scorer's error), or an opaque relayed payload.
Body(kind, error, lines, sentiment) ==
    [kind |-> kind, error |-> error, lines |-> lines, sentiment |-> sentiment]

Response(statusCode, headers, body) ==
    [statusCode |-> statusCode, headers |-> headers, body |-> body]

\* No response (yet).
NoResponse == Response(0, FALSE, Body("none", "", <<>>, ""))

\* An error response without the CORS headers.
Error(statusCode, message) ==
    Response(statusCode, FALSE, Body("error", message, <<>>, ""))

\* A 200 response, with the CORS headers.
Ok(body) == Response(200, TRUE, body)

Sentiments == {"POSITIVE", "NEGATIVE", "NEUTRAL", "MIXED"}

BlockTypes == {"LINE", "WORD"}

\* The "Blocks" of a Textract response.
OcrResponses ==
    SeqsUpTo([BlockType : BlockTypes, Text : OcrTexts], MaxBlocks)

\* ---------------------------------------------------------------- the state

VARIABLES
    event,      \* event[i]: the request of invocation i
    pc,         \* pc[i]: where invocation i stands
    resp,       \* resp[i]: what lambda_handler returned
    calls,      \* calls[i]: the external calls invocation i has made, in order
    loc,        \* loc[i]: the local variables of the handlers
    now,        \* the last value int(time.time()) gave
    jobStatus,  \* jobStatus[n]: status of transcription job TranscribeJob-n
    s3,         \* s3[n]: the invocation that last wrote audio/TranscribeJob-n.mp3
    rawText,    \* the cleaner on its own: its input
    cleaned,    \* clean_extracted_text(rawText)
    recleaned,  \* clean_extracted_text(cleaned)
    passes      \* how many times the cleaner has run

vars ==
    <<event, pc, resp, calls, loc, now, jobStatus, s3, rawText, cleaned,
      recleaned, passes>>

handlerVars == <<event, pc, resp, calls, loc, now, jobStatus, s3>>
cleanerVars == <<rawText, cleaned, recleaned, passes>>

JobNames == 0..MaxClock

NoLocals ==
    [file_content |-> "", blocks |-> <<>>, textract_response |-> NoResponse,
     extracted_text |-> <<>>, sentiment_response |-> NoResponse,
     job_name |-> -1, status |-> "NONE"]

\* --------------------------------------------------------- control helpers

\* `return r` out of lambda_handler.
Return(i, r) ==
    /\ pc' = [pc EXCEPT ![i] = "done"]
    /\ resp' = [resp EXCEPT ![i] = r]

\* An exception that no handler catches: it leaves lambda_handler.
Raise(i) ==
    /\ pc' = [pc EXCEPT ![i] = "raised"]
    /\ UNCHANGED resp

Goto(i, label) ==
    /\ pc' = [pc EXCEPT ![i] = label]
    /\ UNCHANGED resp

Call(i, name) == calls' = [calls EXCEPT ![i] = Append(@, name)]

\* ------------------------------------------------------------- dispatcher

\* lambda_handler up to the handler it routes to.
lambda_handler(i) ==
    /\ pc[i] = "start"
    /\ LET e == event[i] IN
         IF ~e.wellformed
         THEN Raise(i)  \* json.loads(event['body']) or body.get raises
         ELSE CASE e.action = "textract" -> Goto(i, "textract_handler")
                [] e.action = "comprehend" ->
                     IF Falsy(e.text)
                     THEN Return(i, Error(400, "Missing text for sentiment analysis."))
                     ELSE Goto(i, "comprehend_sentiment_handler")
                [] e.action = "textract-comprehend" -> Goto(i, "textract_handler")
                [] e.action = "polly" ->
                     IF Falsy(e.text)
                     THEN Return(i, Error(400, "Missing text for text to speech conversion."))
                     ELSE Goto(i, "polly_handler")
                [] e.action = "transcribe" ->
                     IF Falsy(e.audio_base64)
                     THEN Return(i, Error(400, "Missing audio for transcription."))
                     ELSE Goto(i, "transcribe_handler")
                [] e.action = "rekognition" ->
                     IF Falsy(e.rekognition_type)
                     THEN Return(i, Error(400, "Missing 'rekognition_type' in the request."))
                     ELSE IF Falsy(e.image_data)
                     THEN Return(i, Error(400, "Missing 'image_data'."))
                     ELSE Goto(i, "rekognition_handler")
                [] OTHER -> Return(i, Error(400, "Invalid action specified."))
    /\ UNCHANGED <<event, calls, loc, now, jobStatus, s3>>
    /\ UNCHANGED cleanerVars

\* ---------------------------------------------------------------- textract

\* `return r` out of textract_handler, to lambda_handler (which relays it) or
\* to textract_comprehend_handler (which keeps it in textract_response).
\* l is loc[i] as textract_handler leaves it.
TextractReturn(i, r, l) ==
    IF event[i].action = "textract-comprehend"
    THEN /\ Goto(i, "textract_comprehend_handler")
         /\ loc' = [loc EXCEPT ![i] = [l EXCEPT !.textract_response = r]]
    ELSE /\ Return(i, r)
         /\ loc' = [loc EXCEPT ![i] = l]

\* textract_handler up to its first external call.
textract_handler(i) ==
    /\ pc[i] = "textract_handler"
    /\ LET e == event[i]
           decoded == b64decode(e.file_content)
       IN
         IF e.source_type = Absent
         THEN TextractReturn(i,
                 Error(500, "Failed to process the document: 'source_type'"), loc[i])
         ELSE IF Falsy(e.source_type)
         THEN TextractReturn(i,
                 Error(400, "Missing or invalid 'source_type' in the request."), loc[i])
         ELSE IF e.file_content = Absent
         THEN TextractReturn(i,
                 Error(500, "Failed to process the document: 'file_content'"), loc[i])
         ELSE IF e.source_type = "url"
         THEN Goto(i, "fetch_file_from_url") /\ UNCHANGED loc
         ELSE IF e.source_type = "upload"
         THEN IF decoded.ok
              THEN /\ Goto(i, "detect_document_text")
                   /\ loc' = [loc EXCEPT ![i].file_content = decoded.bytes]
              ELSE TextractReturn(i,
                      Error(500, "Failed to process the document: Incorrect padding"),
                      loc[i])
         ELSE TextractReturn(i, Error(400, "Invalid source_type"), loc[i])
    /\ UNCHANGED <<event, calls, now, jobStatus, s3>>
    /\ UNCHANGED cleanerVars

\* fetch_file_from_url, and the caller's test of its result.
fetch_file_from_url(i) ==
    /\ pc[i] = "fetch_file_from_url"
    /\ \/ /\ IsUrl(event[i].file_content)
          /\ Call(i, "requests.get")
          /\ Goto(i, "detect_document_text")
          /\ loc' = [loc EXCEPT ![i].file_content = "fetched"]
       \/ /\ calls' = IF IsUrl(event[i].file_content)
                      THEN [calls EXCEPT ![i] = Append(@, "requests.get")]
                      ELSE calls
          /\ TextractReturn(i,
                Error(400, "Unable to fetch content from the provided URL."), loc[i])
    /\ UNCHANGED <<event, now, jobStatus, s3>>
    /\ UNCHANGED cleanerVars

\* results: the Text of the LINE blocks, in order.
RECURSIVE LineTexts(_)
LineTexts(blocks) ==
    IF blocks = <<>> THEN <<>>
    ELSE IF Head(blocks).BlockType = "LINE"
         THEN <<Head(blocks).Text>> \o LineTexts(Tail(blocks))
         ELSE LineTexts(Tail(blocks))

\* The body of the 200 response of textract_handler.
TextractBody(blocks) ==
    Split(clean_extracted_text(Join(LineTexts(blocks), NL)), NL)

\* textract.detect_document_text and the rest of textract_handler.
detect_document_text(i) ==
    /\ pc[i] = "detect_document_text"
    /\ Call(i, "detect_document_text")
    /\ \/ /\ loc[i].file_content # ""
          /\ \E blocks \in OcrResponses :
               TextractReturn(i, Ok(Body("lines", "", TextractBody(blocks), "")),
                              [loc[i] EXCEPT !.blocks = blocks])
       \/ TextractReturn(i,
             Error(500, "Failed to process the document: service error"), loc[i])
    /\ UNCHANGED <<event, now, jobStatus, s3>>
    /\ UNCHANGED cleanerVars

\* ---------------------------------------------------------------- composer

\* textract_comprehend_handler without its test of the extractor's status.
textract_comprehend_handler_unchecked(i) ==
    /\ pc[i] = "textract_comprehend_handler"
    /\ Goto(i, "comprehend_sentiment_handler")
    /\ loc' = [loc EXCEPT ![i].extracted_text =
                  Join(loc[i].textract_response.body.lines, " ")]
    /\ UNCHANGED <<event, calls, now, jobStatus, s3>>
    /\ UNCHANGED cleanerVars

\* textract_comprehend_handler from the return of textract_handler to the
\* call of comprehend_sentiment_handler.
textract_comprehend_handler(i) ==
    /\ pc[i] = "textract_comprehend_handler"
    /\ IF loc[i].textract_response.statusCode # 200
       THEN Return(i, loc[i].textract_response) /\ UNCHANGED loc
       ELSE /\ Goto(i, "comprehend_sentiment_handler")
            /\ loc' = [loc EXCEPT ![i].extracted_text =
                          Join(loc[i].textract_response.body.lines, " ")]
    /\ UNCHANGED <<event, calls, now, jobStatus, s3>>
    /\ UNCHANGED cleanerVars

\* The response textract_comprehend_handler builds from the scorer's.
combined_result(extracted_text, sentiment_response) ==
    Ok(Body("combined", sentiment_response.body.error,
            Split(extracted_text, " "), sentiment_response.body.sentiment))

\* `return r` out of comprehend_sentiment_handler, to lambda_handler or to
\* textract_comprehend_handler.
SentimentReturn(i, r) ==
    IF event[i].action = "textract-comprehend"
    THEN /\ loc' = [loc EXCEPT ![i].sentiment_response = r]
         /\ Return(i, combined_result(loc[i].extracted_text, r))
    ELSE /\ Return(i, r)
         /\ UNCHANGED loc

\* comprehend_sentiment_handler: one call of comprehend.detect_sentiment.
comprehend_sentiment_handler(i) ==
    /\ pc[i] = "comprehend_sentiment_handler"
    /\ Call(i, "detect_sentiment")
    /\ \/ \E s \in Sentiments : SentimentReturn(i, Ok(Body("sentiment", "", <<>>, s)))
       \/ SentimentReturn(i, Error(500, "Failed to analyze sentiment: service error"))
    /\ UNCHANGED <<event, now, jobStatus, s3>>
    /\ UNCHANGED cleanerVars

\* ------------------------------------------------------------------- polly

\* polly_handler: one call of polly.synthesize_speech.
polly_handler(i) ==
    /\ pc[i] = "polly_handler"
    /\ Call(i, "synthesize_speech")
    /\ \/ Return(i, Ok(Body("audio", "", <<>>, "")))
       \/ Return(i, Error(500, "Failed to convert text to speech: service error"))
    /\ UNCHANGED <<event, loc, now, jobStatus, s3>>
    /\ UNCHANGED cleanerVars

\* -------------------------------------------------------------- transcribe

Terminal == {"COMPLETED", "FAILED"}

\* transcribe_handler up to the upload: the job name is read off the clock,
\* which has not gone back since it was last read.
upload_file(i) ==
    /\ pc[i] = "transcribe_handler"
    /\ \E t \in now..MaxClock :
         /\ now' = t
         /\ loc' = [loc EXCEPT ![i].job_name = t]
         /\ Call(i, "upload_file")
         /\ \/ /\ s3' = [s3 EXCEPT ![t] = i]
               /\ Goto(i, "start_transcription_job")
            \/ /\ UNCHANGED s3
               /\ Raise(i)
    /\ UNCHANGED <<event, jobStatus>>
    /\ UNCHANGED cleanerVars

\* transcribe.start_transcription_job: a job name already in use is a
\* ConflictException.
start_transcription_job(i) ==
    /\ pc[i] = "start_transcription_job"
    /\ Call(i, "start_transcription_job")
    /\ \/ /\ jobStatus[loc[i].job_name] = "NONE"
          /\ jobStatus' = [jobStatus EXCEPT ![loc[i].job_name] = "IN_PROGRESS"]
          /\ Goto(i, "get_transcription_job")
       \/ /\ UNCHANGED jobStatus
          /\ Raise(i)
    /\ UNCHANGED <<event, loc, now, s3>>
    /\ UNCHANGED cleanerVars

\* The transcription service finishes a job.
TranscriptionJobEnds ==
    /\ \E n \in JobNames, st \in Terminal :
         /\ jobStatus[n] = "IN_PROGRESS"
         /\ jobStatus' = [jobStatus EXCEPT ![n] = st]
    /\ UNCHANGED <<event, pc, resp, calls, loc, now, s3>>
    /\ UNCHANGED cleanerVars

\* One round of the polling loop. calls[i] keeps one entry for a run of polls.
get_transcription_job(i) ==
    /\ pc[i] = "get_transcription_job"
    /\ calls' = IF calls[i][Len(calls[i])] = "get_transcription_job"
                THEN calls
                ELSE [calls EXCEPT ![i] = Append(@, "get_transcription_job")]
    /\ \/ /\ loc' = [loc EXCEPT ![i].status = jobStatus[loc[i].job_name]]
          /\ IF jobStatus[loc[i].job_name] \in Terminal
             THEN Goto(i, "transcript")
             ELSE UNCHANGED <<pc, resp>>  \* time.sleep(10)
       \/ /\ UNCHANGED loc
          /\ Raise(i)
    /\ UNCHANGED <<event, now, jobStatus, s3>>
    /\ UNCHANGED cleanerVars

\* transcribe_handler after the loop.
transcript(i) ==
    /\ pc[i] = "transcript"
    /\ \/ /\ loc[i].status = "COMPLETED"
          /\ Call(i, "requests.get")
          /\ Return(i, Ok(Body("transcription", "", <<>>, "")))
       \/ /\ loc[i].status = "COMPLETED"
          /\ Call(i, "requests.get")
          /\ Raise(i)
       \/ /\ loc[i].status # "COMPLETED"
          /\ UNCHANGED calls
          /\ Return(i, Error(500, "Failed to transcribe the audio."))
    /\ UNCHANGED <<event, loc, now, jobStatus, s3>>
    /\ UNCHANGED cleanerVars

\* ------------------------------------------------------------- rekognition

\* An error response with the CORS headers.
ErrorWithHeaders(statusCode, message) ==
    Response(statusCode, TRUE, Body("error", message, <<>>, ""))

\* rekognition_handler up to its external call.
rekognition_handler(i) ==
    /\ pc[i] = "rekognition_handler"
    /\ LET e == event[i] IN
         IF Falsy(e.rekognition_type)
         THEN Return(i, ErrorWithHeaders(400, "Missing 'rekognition_type' in the request."))
         ELSE IF Falsy(e.image_data)
         THEN Return(i, ErrorWithHeaders(400, "Missing 'image_data'."))
         ELSE IF ~b64decode(e.image_data).ok
         THEN Return(i, Error(500, "Failed to process the image: Incorrect padding"))
         ELSE IF e.rekognition_type = "label"
         THEN Goto(i, "detect_labels")
         ELSE IF e.rekognition_type = "detect_faces"
         THEN Goto(i, "detect_faces")
         ELSE Return(i, Error(400, "Invalid 'rekognition_type' specified"))
    /\ UNCHANGED <<event, calls, loc, now, jobStatus, s3>>
    /\ UNCHANGED cleanerVars

\* rekognition.detect_labels and the return of rekognition_handler.
detect_labels(i) ==
    /\ pc[i] = "detect_labels"
    /\ Call(i, "detect_labels")
    /\ \/ Return(i, Ok(Body("labels", "", <<>>, "")))
       \/ Return(i, Error(500, "Failed to process the image: service error"))
    /\ UNCHANGED <<event, loc, now, jobStatus, s3>>
    /\ UNCHANGED cleanerVars

\* rekognition.detect_faces and the return of rekognition_handler.
detect_faces(i) ==
    /\ pc[i] = "detect_faces"
    /\ Call(i, "detect_faces")
    /\ \/ Return(i, Ok(Body("faces", "", <<>>, "")))
       \/ Return(i, Error(500, "Failed to process the image: service error"))
    /\ UNCHANGED <<event, loc, now, jobStatus, s3>>
    /\ UNCHANGED cleanerVars

\* ------------------------------------------------- the cleaner on its own

CleanOnce ==
    /\ passes = 0
    /\ cleaned' = clean_extracted_text(rawText)
    /\ passes' = 1
    /\ UNCHANGED <<rawText, recleaned>>
    /\ UNCHANGED handlerVars

CleanAgain ==
    /\ passes = 1
    /\ recleaned' = clean_extracted_text(cleaned)
    /\ passes' = 2
    /\ UNCHANGED <<rawText, cleaned>>
    /\ UNCHANGED handlerVars

\* --------------------------------------------------------- specifications

\* The state before the invocations in `started` run, each with the request
\* `requests` gives it; the other invocations never run.
InitHandlers(requests, started) ==
    /\ event = requests
    /\ pc = [i \in Invocations |-> IF i \in started THEN "start" ELSE "off"]
    /\ resp = [i \in Invocations |-> NoResponse]
    /\ calls = [i \in Invocations |-> <<>>]
    /\ loc = [i \in Invocations |-> NoLocals]
    /\ now = 0
    /\ jobStatus = [n \in JobNames |-> "NONE"]
    /\ s3 = [n \in JobNames |-> 0]

CleanerIdle ==
    /\ rawText = <<>>
    /\ cleaned = <<>>
    /\ recleaned = <<>>
    /\ passes = 0

\* One invocation of lambda_handler, with any request.
Init ==
    /\ \E r \in Requests :
         InitHandlers([i \in Invocations |-> IF i = 1 THEN r ELSE NoRequest], {1})
    /\ CleanerIdle

Next ==
    \/ \E i \in Invocations :
         \/ lambda_handler(i)
         \/ textract_handler(i)
         \/ fetch_file_from_url(i)
         \/ detect_document_text(i)
         \/ textract_comprehend_handler(i)
         \/ comprehend_sentiment_handler(i)
         \/ polly_handler(i)
         \/ upload_file(i)
         \/ start_transcription_job(i)
         \/ get_transcription_job(i)
         \/ transcript(i)
         \/ rekognition_handler(i)
         \/ detect_labels(i)
         \/ detect_faces(i)
    \/ TranscriptionJobEnds

Spec == Init /\ [][Next]_vars

\* Two concurrent invocations of lambda_handler with transcribe requests.
InitConcurrent ==
    /\ \E r1 \in TranscribeRequests, r2 \in TranscribeRequests :
         InitHandlers([i \in Invocations |-> IF i = 1 THEN r1 ELSE r2], Invocations)
    /\ CleanerIdle

NextConcurrent ==
    \/ \E i \in Invocations :
         \/ lambda_handler(i)
         \/ upload_file(i)
         \/ start_transcription_job(i)
         \/ get_transcription_job(i)
         \/ transcript(i)
    \/ TranscriptionJobEnds

SpecConcurrent == InitConcurrent /\ [][NextConcurrent]_vars

\* clean_extracted_text applied to a text, and again to its own output.
InitCleaner ==
    /\ InitHandlers([i \in Invocations |-> NoRequest], {})
    /\ rawText \in CleanerTexts
    /\ cleaned = <<>>
    /\ recleaned = <<>>
    /\ passes = 0

NextCleaner == CleanOnce \/ CleanAgain

SpecCleaner == InitCleaner /\ [][NextCleaner]_vars

\* ------------------------------------------------------------- properties

Finished(i) == pc[i] \in {"done", "raised"}

Range(f) == {f[k] : k \in DOMAIN f}

\* a is b with some elements left out, order kept.
RECURSIVE IsSubsequence(_, _)
IsSubsequence(a, b) ==
    IF a = <<>> THEN TRUE
    ELSE IF b = <<>> THEN FALSE
    ELSE IF Head(a) = Head(b) THEN IsSubsequence(Tail(a), Tail(b))
    ELSE IsSubsequence(a, Tail(b))

Stripped(lines) == [k \in DOMAIN lines |-> Strip(lines[k])]

\* A field the request's action requires is absent or empty.
MissingRequired(e) ==
    /\ e.wellformed
    /\ \/ /\ e.action \in {"textract", "textract-comprehend"}
          /\ Falsy(e.source_type) \/ Falsy(e.file_content)
       \/ /\ e.action \in {"comprehend", "polly"}
          /\ Falsy(e.text)
       \/ /\ e.action = "transcribe"
          /\ Falsy(e.audio_base64)
       \/ /\ e.action = "rekognition"
          /\ Falsy(e.rekognition_type) \/ Falsy(e.image_data)

\* C1: a request whose action lacks a required field (absent or empty) is
\* answered with 400, and no external call is made for it.
C1_MissingFieldFailsFast ==
    \A i \in Invocations :
        MissingRequired(event[i]) =>
            /\ calls[i] = <<>>
            /\ pc[i] # "raised"
            /\ pc[i] = "done" => resp[i].statusCode = 400

\* The request carries an invalid enumerated value.
InvalidEnum(e) ==
    /\ e.wellformed
    /\ \/ e.action \notin ActionNames
       \/ /\ e.action \in {"textract", "textract-comprehend"}
          /\ e.source_type \notin {"url", "upload"}
       \/ /\ e.action = "rekognition"
          /\ e.rekognition_type \notin {"label", "detect_faces"}

\* C2: a request with an invalid action, source_type or rekognition_type is
\* answered with 400, whatever its other fields hold.
C2_InvalidEnumGets400 ==
    \A i \in Invocations :
        InvalidEnum(event[i]) =>
            /\ pc[i] # "raised"
            /\ pc[i] = "done" => resp[i].statusCode = 400

\* C3: no exception leaves lambda_handler, and what it returns has status
\* 200, 400 or 500.
C3_ReturnsEnvelope ==
    \A i \in Invocations :
        /\ pc[i] # "raised"
        /\ pc[i] = "done" => resp[i].statusCode \in {200, 400, 500}

\* The extractor stage of the composer has returned a response that is not 200.
ExtractorFailed(i) ==
    /\ event[i].action = "textract-comprehend"
    /\ loc[i].textract_response.statusCode \notin {0, 200}

\* C4: when textract_handler returns a non-200 response to the composer, the
\* composer returns that very response and the sentiment scorer is not invoked.
C4_ComposerShortCircuit ==
    \A i \in Invocations :
        ExtractorFailed(i) =>
            /\ "detect_sentiment" \notin Range(calls[i])
            /\ pc[i] # "comprehend_sentiment_handler"
            /\ pc[i] = "done" => resp[i] = loc[i].textract_response

C4_Witness ==
    \E i \in Invocations :
        /\ ExtractorFailed(i)
        /\ pc[i] = "done"
        /\ resp[i].statusCode = 400

\* C5: the composer returns the response of whichever stage fails first,
\* unchanged; it never returns 200 when a stage returned a non-200 response.
C5_FailingStagePropagates ==
    \A i \in Invocations :
        (event[i].action = "textract-comprehend" /\ pc[i] = "done") =>
            /\ loc[i].textract_response.statusCode # 200 =>
                   resp[i] = loc[i].textract_response
            /\ ( /\ loc[i].textract_response.statusCode = 200
                 /\ loc[i].sentiment_response.statusCode \notin {0, 200} ) =>
                   resp[i] = loc[i].sentiment_response

\* The lines of a text the cleaner returned (the empty text has none).
OutputLines(t) == IF t = <<>> THEN <<>> ELSE Split(t, NL)

\* The input lines long enough to survive, trimmed.
LongLinesTrimmed(t) ==
    Stripped(SelectSeq(Split(t, NL), LAMBDA l : Len(l) > MinLineLen))

\* C6: every line clean_extracted_text returns is trimmed, does not start
\* with http:// or https://, and the lines returned are, in order, a
\* subsequence of the trimmed input lines of length > 4.
C6_SurvivorsAreClean ==
    passes >= 1 =>
        /\ \A k \in DOMAIN OutputLines(cleaned) :
             LET l == OutputLines(cleaned)[k] IN
               /\ Strip(l) = l
               /\ ~StartsWith(l, Http)
               /\ ~StartsWith(l, Https)
        /\ IsSubsequence(OutputLines(cleaned), LongLinesTrimmed(rawText))

\* C7: cleaning the cleaner's output again changes nothing.
C7_Idempotent == passes = 2 => recleaned = cleaned

\* C8: the body of a 200 response of the textract action is a sequence of
\* non-empty strings, each the trimmed text of a LINE block, in the order of
\* the blocks.
C8_BodyIsNonEmptyLines ==
    \A i \in Invocations :
        ( /\ event[i].action = "textract"
          /\ pc[i] = "done"
          /\ resp[i].statusCode = 200 ) =>
            /\ \A k \in DOMAIN resp[i].body.lines : resp[i].body.lines[k] # <<>>
            /\ IsSubsequence(resp[i].body.lines,
                             Stripped(LineTexts(loc[i].blocks)))

TranscribeCalls ==
    <<"upload_file", "start_transcription_job", "get_transcription_job",
      "requests.get">>

\* C9: transcribe_handler uploads, starts the job and polls, in that order;
\* it returns only after a poll saw COMPLETED or FAILED; and once a poll saw
\* one of them it returns, 200 for COMPLETED and 500 for FAILED.
C9_TranscribeReturnsOnTerminal ==
    \A i \in Invocations :
        event[i].action = "transcribe" =>
            /\ calls[i] = SubSeq(TranscribeCalls, 1, Len(calls[i]))
            /\ (pc[i] = "done" /\ ~Falsy(event[i].audio_base64)) =>
                   loc[i].status \in Terminal
            /\ (Finished(i) /\ loc[i].status = "COMPLETED") =>
                   (pc[i] = "done" /\ resp[i].statusCode = 200)
            /\ (Finished(i) /\ loc[i].status = "FAILED") =>
                   (pc[i] = "done" /\ resp[i].statusCode = 500)

\* Invocation i has written its audio to the bucket.
Uploaded(i) ==
    /\ loc[i].job_name # -1
    /\ pc[i] = "start_transcription_job" \/ Len(calls[i]) >= 2

\* C10: two concurrent transcribe invocations never use the same
\* transcription job name nor (the key being made from the name) write the
\* same storage key.
C10_DistinctJobNames ==
    \A i, j \in Invocations :
        (i # j /\ Uploaded(i) /\ Uploaded(j)) =>
            loc[i].job_name # loc[j].job_name

====
